---- MODULE Spec2Model ----
(***************************************************************************)
(* The ChatInterface component: a chat log, an input box, a Send button    *)
(* and the two approval buttons, driven by three endpoints of the backend  *)
(* (GET /health/, POST /api/chat/, POST /api/execute-query/).              *)
(*                                                                         *)
(* Strings are sequences of tokens: a token is one character of user or    *)
(* backend text, or one literal fragment of a template of the source.  The *)
(* code fence of the templates is written <fence>, the emoji of the        *)
(* notices are written [x], [ok] and [warn].                               *)
(* Message.id and Message.timestamp (Date.now, Math.random) are not read   *)
(* by any handler and are left out of the message records.                 *)
(***************************************************************************)
EXTENDS Integers, Sequences, FiniteSets, TLC

VARIABLES messages, input, isLoading, pendingQuery, connectionStatus,
          calls, inflight, op

vars == <<messages, input, isLoading, pendingQuery, connectionStatus,
          calls, inflight, op>>

\* the state of the component without the record of the last event
view == <<messages, input, isLoading, pendingQuery, connectionStatus,
          calls, inflight>>

-----------------------------------------------------------------------------
\* Bounds

MaxLog == 6

-----------------------------------------------------------------------------
\* Values

Chars == {" ", "a"}
Whitespace == {" "}
\* what the user may type: nothing, whitespace only, and a word with
\* whitespace before it, after it, around it and inside it
Texts == {<<>>, <<" ">>, <<"a">>, <<" ", "a">>, <<"a", " ">>,
          <<" ", "a", " ">>, <<"a", " ", "a">>}

RECURSIVE trimStart(_)
trimStart(s) ==
    IF s = <<>> THEN s
    ELSE IF Head(s) \in Whitespace THEN trimStart(Tail(s)) ELSE s

RECURSIVE trimEnd(_)
trimEnd(s) ==
    IF s = <<>> THEN s
    ELSE IF s[Len(s)] \in Whitespace THEN trimEnd(SubSeq(s, 1, Len(s) - 1)) ELSE s

trim(s) == trimEnd(trimStart(s))

undefined == [has |-> FALSE]
Some(v) == [has |-> TRUE, val |-> v]
null == [isNull |-> TRUE]

\* what the backend may put in its answers
Questions == {trim(t) : t \in Texts} \ {<<>>}
Queries == {<<"x">>, <<"y">>}
ErrorFields == {undefined, Some(<<>>), Some(<<"e">>)}
Answers == {<<"n">>}
Results == {[kind |-> "array", items |-> <<>>],
            [kind |-> "array", items |-> <<1>>],
            [kind |-> "object", items |-> <<>>],
            [kind |-> "null", items |-> <<>>],
            [kind |-> "number", items |-> <<0>>]}

\* a fetch either rejects, or resolves to a response with an ok flag and a
\* JSON body; a body that does not parse makes response.json() reject
NetworkError == [kind |-> "exception"]
Http(ok, body) == [kind |-> "http", ok |-> ok, body |-> body]
NoResponse == [kind |-> "none"]

HealthBodies == [status : {"healthy", "unhealthy"},
                 mongodb_connected : BOOLEAN,
                 collections_count : {undefined, Some(0), Some(5)}]
HealthResponses ==
    {NetworkError} \cup {Http(ok, b) : ok \in BOOLEAN, b \in HealthBodies}

ChatBodies ==
    {[success |-> TRUE, question |-> q, query |-> y, error |-> undefined] :
        q \in Questions, y \in Queries}
    \cup {[success |-> FALSE, question |-> <<>>, query |-> <<>>, error |-> e] :
        e \in ErrorFields}
ChatResponses ==
    {NetworkError} \cup {Http(TRUE, b) : b \in ChatBodies}
    \cup {Http(FALSE, [success |-> FALSE, question |-> <<>>, query |-> <<>>,
                       error |-> undefined])}

ExecuteBodies ==
    {[success |-> TRUE, result |-> r, answer |-> a, error |-> undefined] :
        r \in Results, a \in Answers}
    \cup {[success |-> FALSE, result |-> [kind |-> "null", items |-> <<>>],
           answer |-> <<>>, error |-> e] : e \in ErrorFields}
ExecuteResponses ==
    {NetworkError} \cup {Http(TRUE, b) : b \in ExecuteBodies}
    \cup {Http(FALSE, [success |-> FALSE,
                       result |-> [kind |-> "null", items |-> <<>>],
                       answer |-> <<>>, error |-> undefined])}

\* x || d on an optional string: undefined and "" are falsy
OrElse(x, d) == IF x.has /\ x.val # <<>> THEN x.val ELSE d

-----------------------------------------------------------------------------
\* Messages

Message(type, content, query, result, answer) ==
    [type |-> type, content |-> content, query |-> query,
     result |-> result, answer |-> answer]

WelcomeMessage ==
    Message("bot", <<"Welcome to your AI-powered MongoDB assistant!">>,
            undefined, undefined, undefined)

addMessage_prepend(log, message) == <<message>> \o log

\* setMessages(prev => [...prev, newMessage])
addMessage(log, message) == Append(log, message)

BotMessage(content) == Message("bot", content, undefined, undefined, undefined)
UserMessage(content) == Message("user", content, undefined, undefined, undefined)

\* the elements of a non-empty array, each on its own line, indented by two
RECURSIVE stringifyItems(_)
stringifyItems(items) ==
    IF Len(items) = 1
    THEN <<"\n  ", ToString(items[1])>>
    ELSE <<"\n  ", ToString(Head(items)), ",">> \o stringifyItems(Tail(items))

\* JSON.stringify(value, null, 2), for an array of numbers, the empty object,
\* null and a number
stringify(r) ==
    CASE r.kind = "array" ->
            IF r.items = <<>> THEN <<"[]">>
            ELSE <<"[">> \o stringifyItems(r.items) \o <<"\n", "]">>
      [] r.kind = "object" -> <<"{}">>
      [] r.kind = "null" -> <<"null">>
      [] r.kind = "number" -> <<ToString(r.items[1])>>

resultDisplay_noSpecialCase(r) == stringify(r)

\* let resultDisplay = '' ... the empty array is shown as 'No results found'
resultDisplay(r) ==
    IF r.kind = "array"
    THEN IF Len(r.items) = 0 THEN <<"No results found">> ELSE stringify(r)
    ELSE stringify(r)

-----------------------------------------------------------------------------
\* Network calls: calls is the history of the requests issued, inflight the
\* positions in it of the requests whose promise has not settled.  A request
\* carries its body and, for the continuation of the handler that awaits
\* it, the length of the log when the handler was invoked.

Request(endpoint, question, query, base) ==
    [endpoint |-> endpoint, question |-> question, query |-> query,
     base |-> base]

HealthEndpoint == "/health/"
ChatEndpoint == "/api/chat/"
ExecuteEndpoint == "/api/execute-query/"

Event(name, accepted, call, resp) ==
    [name |-> name, accepted |-> accepted, call |-> call, resp |-> resp]

Init ==
    /\ messages = <<WelcomeMessage>>
    /\ input = <<>>
    /\ isLoading = FALSE
    /\ pendingQuery = null
    /\ connectionStatus = "checking"
    /\ calls = <<>>
    /\ inflight = {}
    /\ op = Event("init", FALSE, 0, NoResponse)

-----------------------------------------------------------------------------
\* checkConnection

\* the effect without its empty dependency list: it runs again after a render
Mount_everyRender ==
    /\ \A id \in inflight : calls[id].endpoint # HealthEndpoint
    /\ Len(calls) < 4
    /\ calls' = Append(calls, Request(HealthEndpoint, <<>>, <<>>, Len(messages)))
    /\ inflight' = inflight \cup {Len(calls) + 1}
    /\ op' = Event("Mount", TRUE, Len(calls) + 1, NoResponse)
    /\ UNCHANGED <<messages, input, isLoading, pendingQuery, connectionStatus>>

\* useEffect(() => { checkConnection() }, []): runs once, after the first
\* render; the handler runs up to its await fetch
Mount ==
    /\ calls = <<>>
    /\ calls' = Append(calls, Request(HealthEndpoint, <<>>, <<>>, Len(messages)))
    /\ inflight' = inflight \cup {Len(calls) + 1}
    /\ op' = Event("Mount", TRUE, Len(calls) + 1, NoResponse)
    /\ UNCHANGED <<messages, input, isLoading, pendingQuery, connectionStatus>>

Healthy_statusOnly(data) == data.status = "healthy"

\* if (data.status === 'healthy' && data.mongodb_connected)
Healthy(data) == data.status = "healthy" /\ data.mongodb_connected

EmptyStore_falsy(data) == data.collections_count \in {undefined, Some(0)}

\* if (data.collections_count === 0)
EmptyStore(data) == data.collections_count = Some(0)

EmptyStoreWarning ==
    BotMessage(<<"[warn] Warning: Your database appears to be empty.">>)

ConnectionErrorNotice ==
    BotMessage(<<"[x] Connection Error: Unable to connect to the database.">>)

ServerErrorNotice ==
    BotMessage(<<"[x] Server Error: Unable to connect to the API server.">>)

\* the rest of checkConnection, once the fetch has settled
checkConnectionSettled(id, resp) ==
    /\ id \in inflight
    /\ calls[id].endpoint = HealthEndpoint
    /\ inflight' = inflight \ {id}
    /\ IF resp.kind = "exception"
       THEN /\ connectionStatus' = "error"
            /\ messages' = addMessage(messages, ServerErrorNotice)
       ELSE IF Healthy(resp.body)
       THEN /\ connectionStatus' = "connected"
            /\ messages' =
                 IF EmptyStore(resp.body)
                 THEN addMessage(messages, EmptyStoreWarning)
                 ELSE messages
       ELSE /\ connectionStatus' = "error"
            /\ messages' = addMessage(messages, ConnectionErrorNotice)
    /\ op' = Event("checkConnectionSettled", TRUE, id, resp)
    /\ UNCHANGED <<input, isLoading, pendingQuery, calls>>

-----------------------------------------------------------------------------
\* handleSendMessage

SendRefused_untrimmed == input = <<>> \/ isLoading \/ connectionStatus # "connected"

\* if (!input.trim() || isLoading || connectionStatus !== 'connected') return
SendRefused == trim(input) = <<>> \/ isLoading \/ connectionStatus # "connected"

ChatRequest_toExecute(userMessage) ==
    Request(ExecuteEndpoint, userMessage, <<>>, Len(messages))

\* the body of the POST to /api/chat/
ChatRequest(userMessage) ==
    Request(ChatEndpoint, userMessage, <<>>, Len(messages))

ProposalOf_questionTwice(data) == [question |-> data.question, query |-> data.question]

ProposalOf_queryTwice(data) == [question |-> data.query, query |-> data.query]

\* setPendingQuery({question: data.question, query: data.query})
ProposalOf(data) == [question |-> data.question, query |-> data.query]

QueryMessage(data) ==
    Message("query",
            <<"Generated MongoDB Query:\n<fence>python\n">> \o data.query \o <<"\n<fence>">>,
            Some(data.query), undefined, undefined)

userMessage_untrimmed == input

\* const userMessage = input.trim()
userMessage == trim(input)

\* the handler up to its await fetch
handleSendMessage(name) ==
    IF SendRefused
    THEN /\ op' = Event(name, FALSE, 0, NoResponse)
         /\ UNCHANGED view
    ELSE /\ input' = <<>>
         /\ isLoading' = TRUE
         /\ messages' = addMessage(messages, UserMessage(userMessage))
         /\ calls' = Append(calls, ChatRequest(userMessage))
         /\ inflight' = inflight \cup {Len(calls) + 1}
         /\ op' = Event(name, TRUE, Len(calls) + 1, NoResponse)
         /\ UNCHANGED <<pendingQuery, connectionStatus>>

SendErrorNotice ==
    BotMessage(<<"[x] Sorry, I encountered an error while processing your request.">>)

SendFinally_missing == UNCHANGED isLoading

\* finally { setIsLoading(false) }
SendFinally == isLoading' = FALSE

\* the rest of the handler, once the fetch has settled: try, catch, finally
handleSendMessageSettled(id, resp) ==
    /\ id \in inflight
    /\ calls[id].endpoint = ChatEndpoint
    /\ inflight' = inflight \ {id}
    /\ IF resp.kind = "exception" \/ ~resp.ok
       THEN /\ messages' = addMessage(messages, SendErrorNotice)
            /\ UNCHANGED pendingQuery
       ELSE IF resp.body.success
       THEN /\ messages' = addMessage(messages, QueryMessage(resp.body))
            /\ pendingQuery' = ProposalOf(resp.body)
       ELSE /\ messages' = addMessage(messages,
                 BotMessage(<<"[x] Error: ">>
                            \o OrElse(resp.body.error, <<"Failed to generate query">>)))
            /\ UNCHANGED pendingQuery
    /\ SendFinally
    /\ op' = Event("handleSendMessageSettled", TRUE, id, resp)
    /\ UNCHANGED <<input, connectionStatus, calls>>

-----------------------------------------------------------------------------
\* handleExecuteQuery

ExecuteRequest_questionAsQuery(pending) ==
    Request(ExecuteEndpoint, pending.question, pending.question, Len(messages))

\* the body of the POST to /api/execute-query/
ExecuteRequest(pending) ==
    Request(ExecuteEndpoint, pending.question, pending.query, Len(messages))

ResultMessage_noResult(data) ==
    Message("result",
            <<"Query Result:\n<fence>json\n">> \o resultDisplay(data.result) \o <<"\n<fence>">>,
            undefined, undefined, undefined)

ResultMessage(data) ==
    Message("result",
            <<"Query Result:\n<fence>json\n">> \o resultDisplay(data.result) \o <<"\n<fence>">>,
            undefined, Some(data.result), undefined)

AnswerMessage(data) ==
    Message("bot", <<"[ok] ">> \o data.answer, undefined, undefined,
            Some(data.answer))

CancelMessage ==
    BotMessage(<<"[x] Query execution cancelled. Feel free to ask another question!">>)

Truthy_always(p) == TRUE

\* the truthiness of the pendingQuery state: !pendingQuery, pendingQuery && (...)
Truthy(p) == p # null

\* the cancel branch without its return: it falls through to the fetch
handleExecuteQuery_noReturn(name, approve) ==
    IF ~Truthy(pendingQuery)
    THEN /\ op' = Event(name, FALSE, 0, NoResponse)
         /\ UNCHANGED view
    ELSE /\ messages' = IF approve THEN messages ELSE addMessage(messages, CancelMessage)
         /\ pendingQuery' = IF approve THEN pendingQuery ELSE null
         /\ isLoading' = TRUE
         /\ calls' = Append(calls, ExecuteRequest(pendingQuery))
         /\ inflight' = inflight \cup {Len(calls) + 1}
         /\ op' = Event(name, TRUE, Len(calls) + 1, NoResponse)
         /\ UNCHANGED <<input, connectionStatus>>

\* the handler up to its return (cancel) or its await fetch (approve)
handleExecuteQuery(name, approve) ==
    IF ~Truthy(pendingQuery)
    THEN /\ op' = Event(name, FALSE, 0, NoResponse)
         /\ UNCHANGED view
    ELSE IF ~approve
    THEN /\ messages' = addMessage(messages, CancelMessage)
         /\ pendingQuery' = null
         /\ op' = Event(name, TRUE, 0, NoResponse)
         /\ UNCHANGED <<input, isLoading, connectionStatus, calls, inflight>>
    ELSE /\ isLoading' = TRUE
         /\ calls' = Append(calls, ExecuteRequest(pendingQuery))
         /\ inflight' = inflight \cup {Len(calls) + 1}
         /\ op' = Event(name, TRUE, Len(calls) + 1, NoResponse)
         /\ UNCHANGED <<messages, input, pendingQuery, connectionStatus>>

ExecuteFinally_staysBusy ==
    /\ pendingQuery' = null
    /\ UNCHANGED isLoading

ExecuteFinally_keepsPending ==
    /\ isLoading' = FALSE
    /\ UNCHANGED pendingQuery

\* finally { setIsLoading(false); setPendingQuery(null) }
ExecuteFinally ==
    /\ isLoading' = FALSE
    /\ pendingQuery' = null

\* the rest of the handler, once the fetch has settled: try, catch, finally
handleExecuteQuerySettled(id, resp) ==
    /\ id \in inflight
    /\ calls[id].endpoint = ExecuteEndpoint
    /\ inflight' = inflight \ {id}
    /\ IF resp.kind = "exception" \/ ~resp.ok
       THEN messages' = addMessage(messages,
                 BotMessage(<<"[x] Sorry, I encountered an error while executing the query.">>))
       ELSE IF resp.body.success
       THEN messages' = addMessage(addMessage(messages, ResultMessage(resp.body)),
                                   AnswerMessage(resp.body))
       ELSE messages' = addMessage(messages,
                 BotMessage(<<"[x] Error executing query: ">>
                            \o OrElse(resp.body.error, <<"Unknown error">>)))
    /\ ExecuteFinally
    /\ op' = Event("handleExecuteQuerySettled", TRUE, id, resp)
    /\ UNCHANGED <<input, connectionStatus, calls>>

-----------------------------------------------------------------------------
\* The user's events on the rendered elements

\* <input disabled={isLoading || connectionStatus !== 'connected'}>
InputDisabled == isLoading \/ connectionStatus # "connected"

\* <button disabled={isLoading || !input.trim() || connectionStatus !== 'connected'}>
SendDisabled == isLoading \/ trim(input) = <<>> \/ connectionStatus # "connected"

\* {pendingQuery && ( ... the two approval buttons ... )}
ApprovalRendered == Truthy(pendingQuery)

ApprovalDisabled_never == FALSE

\* <button onClick={() => handleExecuteQuery(...)} disabled={isLoading}>
ApprovalDisabled == isLoading

\* an event on a disabled or absent element reaches no handler
Ignored(name) ==
    /\ op' = Event(name, FALSE, 0, NoResponse)
    /\ UNCHANGED view

\* onChange={(e) => setInput(e.target.value)}
TypeInput(t) ==
    /\ ~InputDisabled
    /\ input' = t
    /\ op' = Event("TypeInput", TRUE, 0, NoResponse)
    /\ UNCHANGED <<messages, isLoading, pendingQuery, connectionStatus, calls, inflight>>

\* onKeyPress={handleKeyPress}: Enter without Shift calls handleSendMessage
PressEnter ==
    IF InputDisabled THEN Ignored("PressEnter") ELSE handleSendMessage("PressEnter")

\* <button onClick={handleSendMessage}>
ClickSend ==
    IF SendDisabled THEN Ignored("ClickSend") ELSE handleSendMessage("ClickSend")

ClickApproval(name, approve) ==
    IF ~ApprovalRendered \/ ApprovalDisabled
    THEN Ignored(name)
    ELSE handleExecuteQuery(name, approve)

ClickExecute == ClickApproval("ClickExecute", TRUE)

ClickCancel == ClickApproval("ClickCancel", FALSE)

\* the log is cut off at MaxLog: no event of the user is taken once it is full
LogOpen == Len(messages) < MaxLog

Next ==
    \/ Mount
    \/ \E id \in inflight, resp \in HealthResponses : checkConnectionSettled(id, resp)
    \/ \E t \in Texts : LogOpen /\ TypeInput(t)
    \/ LogOpen /\ PressEnter
    \/ LogOpen /\ ClickSend
    \/ LogOpen /\ ClickCancel
    \/ LogOpen /\ ClickExecute
    \/ \E id \in inflight, resp \in ChatResponses : handleSendMessageSettled(id, resp)
    \/ \E id \in inflight, resp \in ExecuteResponses : handleExecuteQuerySettled(id, resp)

Spec == Init /\ [][Next]_vars

\* a settled fetch resumes the handler that awaits it
SendSettles ==
    \E id \in inflight, resp \in ChatResponses : handleSendMessageSettled(id, resp)

ExecuteSettles ==
    \E id \in inflight, resp \in ExecuteResponses : handleExecuteQuerySettled(id, resp)

\* every call to /api/chat/ and /api/execute-query/ is answered or fails
FairSpec == Spec /\ WF_vars(SendSettles) /\ WF_vars(ExecuteSettles)

-----------------------------------------------------------------------------
\* Properties

Submits == {"PressEnter", "ClickSend"}
Approvals == {"ClickExecute", "ClickCancel"}

\* the requests a step issues
Issued == {calls'[i] : i \in (Len(calls) + 1)..Len(calls')}

\* C1: a request to the execute-query endpoint is issued only by a step of
\* handleExecuteQuery(true) taken while pendingQuery is set; no step of
\* handleSendMessage or checkConnection, and no continuation, issues one.
C1_ExecuteOnlyOnApproval ==
    [][\A r \in Issued : r.endpoint = ExecuteEndpoint =>
          /\ op'.name = "ClickExecute"
          /\ op'.accepted
          /\ pendingQuery # null]_vars

C1_Witness ==
    /\ op.name = "ClickExecute"
    /\ op.accepted
    /\ op.call \in inflight
    /\ calls[op.call].endpoint = ExecuteEndpoint

\* C3: while isLoading is set, a click on either approval button changes
\* nothing: no message, no request, pendingQuery as it was.
C3_ApprovalInertWhileBusy ==
    [][op'.name \in Approvals /\ isLoading => UNCHANGED view]_vars

\* a cancel arrives while the execute call of the proposal is in flight
C3_Witness ==
    /\ op.name = "ClickCancel"
    /\ ~op.accepted
    /\ isLoading
    /\ pendingQuery # null
    /\ \E id \in inflight : calls[id].endpoint = ExecuteEndpoint

\* C4: a submit (Enter or the Send button) taken with an input that is empty
\* after trimming, or with isLoading set, or with connectionStatus other than
\* connected, appends nothing, issues no request, and leaves input, isLoading,
\* pendingQuery and connectionStatus as they were.
C4_SubmitNoOp ==
    [][/\ op'.name \in Submits
       /\ trim(input) = <<>> \/ isLoading \/ connectionStatus # "connected"
       => UNCHANGED view]_vars

\* Enter on a whitespace-only input of a connected, idle session
C4_Witness ==
    /\ op.name = "PressEnter"
    /\ ~op.accepted
    /\ input # <<>>
    /\ trim(input) = <<>>
    /\ ~isLoading
    /\ connectionStatus = "connected"

\* a response that reports success: 2xx, and success: true in the body
Succeeded(resp) == resp.kind = "http" /\ resp.ok /\ resp.body.success

GenerationSettled == op.name = "handleSendMessageSettled"
ExecutionSettled == op.name = "handleExecuteQuerySettled"

\* a query message has no question field: the question it answers is the
\* user message that the same run of handleSendMessage appended before it
QuestionAt(i) ==
    IF i > 1 /\ messages[i - 1].type = "user"
    THEN Some(messages[i - 1].content)
    ELSE undefined

\* C2 as stated: the result message that a successful execution appended is
\* preceded by a query message with the query and the question of the
\* request that was sent to the execute endpoint.
C2_ResultPrecededByQueryAndQuestion ==
    ExecutionSettled /\ Succeeded(op.resp) =>
        \E i \in 1..(Len(messages) - 2) :
            /\ messages[i].type = "query"
            /\ messages[i].query = Some(calls[op.call].query)
            /\ QuestionAt(i) = Some(calls[op.call].question)

\* C2, amended: the result message that a successful execution appended is
\* preceded by a query message carrying the query string of the request that
\* was sent to the execute endpoint; and every result message of the log
\* comes after a query message whose query some execute request carried.
C2_ResultPrecededByQuery ==
    /\ ExecutionSettled /\ Succeeded(op.resp) =>
          /\ messages[Len(messages) - 1].type = "result"
          /\ \E i \in 1..(Len(messages) - 2) :
                /\ messages[i].type = "query"
                /\ messages[i].query = Some(calls[op.call].query)
    /\ \A j \in 1..Len(messages) : messages[j].type = "result" =>
          \E c \in 1..Len(calls), i \in 1..(j - 1) :
                /\ calls[c].endpoint = ExecuteEndpoint
                /\ i <= calls[c].base
                /\ calls[c].base < j
                /\ messages[i].type = "query"
                /\ messages[i].query = Some(calls[c].query)

C2_Witness ==
    /\ ExecutionSettled
    /\ Succeeded(op.resp)
    /\ messages[Len(messages) - 1].type = "result"

\* C5: a set pendingQuery changes only by being cleared, and only by the
\* cancel of it or by the settling of the execute call that carried it; it
\* is not replaced by the proposal of a later generation.
C5_ConsumedOnlyByItsResolution ==
    [][pendingQuery # null /\ pendingQuery' # pendingQuery =>
          /\ pendingQuery' = null
          /\ \/ op'.name = "ClickCancel"
             \/ /\ op'.name = "handleExecuteQuerySettled"
                /\ calls[op'.call].question = pendingQuery.question
                /\ calls[op'.call].query = pendingQuery.query]_vars

\* C6: while pendingQuery is set, a submit appends no message and issues no
\* request.
C6_NoSubmitWhilePending ==
    [][op'.name \in Submits /\ pendingQuery # null =>
          UNCHANGED <<messages, calls>>]_vars

\* C7: when a cancel has been handled, and when the execute call of an
\* approval has settled (success, reported failure, non-2xx or exception),
\* pendingQuery is null.
C7_ResolveClearsPending ==
    (op.name = "ClickCancel" /\ op.accepted) \/ ExecutionSettled =>
        pendingQuery = null

\* an approval whose execute call was rejected by the network
C7_Witness ==
    /\ ExecutionSettled
    /\ op.resp.kind = "exception"
    /\ pendingQuery = null

\* what C8 states of the log and the busy flag, for the request r of the
\* submit and the body b of the response
TwoEventsAppended(r, b) ==
    /\ Len(messages) = r.base + 2
    /\ messages[r.base + 1] = UserMessage(r.question)
    /\ trim(r.question) = r.question
    /\ r.question # <<>>
    /\ messages[r.base + 2].type = "query"
    /\ messages[r.base + 2].query = Some(b.query)
    /\ ~isLoading

\* C8 as stated: after a generation that reported success the log has gained
\* the user message with the trimmed text and the query message with q,
\* pendingQuery is {the submitted text, q} and isLoading is false.
C8_ProposalHoldsSubmittedText ==
    GenerationSettled /\ Succeeded(op.resp) =>
        /\ TwoEventsAppended(calls[op.call], op.resp.body)
        /\ pendingQuery = [question |-> calls[op.call].question,
                           query |-> op.resp.body.query]

\* C8, amended: as above, but the question of pendingQuery is the question
\* field of the response body.
C8_ProposalHoldsEchoedQuestion ==
    GenerationSettled /\ Succeeded(op.resp) =>
        /\ TwoEventsAppended(calls[op.call], op.resp.body)
        /\ pendingQuery = [question |-> op.resp.body.question,
                           query |-> op.resp.body.query]

\* the backend answers with a question other than the one submitted
C8_Witness ==
    /\ GenerationSettled
    /\ Succeeded(op.resp)
    /\ op.resp.body.question # calls[op.call].question
    /\ pendingQuery # null

\* C9: after a generation that failed (success: false, non-2xx or exception)
\* the log has gained the user message and one bot message, no query
\* message, isLoading is false and pendingQuery is null.
C9_FailedGenerationLeavesIdle ==
    GenerationSettled /\ ~Succeeded(op.resp) =>
        LET r == calls[op.call] IN
        /\ Len(messages) = r.base + 2
        /\ messages[r.base + 1] = UserMessage(r.question)
        /\ messages[r.base + 2].type = "bot"
        /\ ~isLoading
        /\ pendingQuery = null

\* C10: a cancel handled with pendingQuery set appends the cancellation
\* notice and nothing else, clears pendingQuery, issues no request and
\* leaves isLoading, connectionStatus and input as they were.
C10_CancelFrame ==
    [][op'.name = "ClickCancel" /\ pendingQuery # null /\ ~isLoading =>
          /\ messages' = Append(messages, CancelMessage)
          /\ CancelMessage.type = "bot"
          /\ pendingQuery' = null
          /\ UNCHANGED <<calls, inflight, isLoading, connectionStatus, input>>]_vars

C10_Witness ==
    /\ op.name = "ClickCancel"
    /\ op.accepted
    /\ messages[Len(messages)] = CancelMessage
    /\ pendingQuery = null
    /\ inflight = {}

\* C11: the execute request of an approval carries the question and the query
\* that pendingQuery held when the button was clicked; when the call reports
\* success the log gains exactly two messages, the result message with the
\* raw result and, right after it, the bot message with the backend's answer.
C11_ExecutionSuccessAppends ==
    /\ [][op'.name = "ClickExecute" /\ op'.accepted =>
            /\ Len(calls') = Len(calls) + 1
            /\ calls'[Len(calls')].endpoint = ExecuteEndpoint
            /\ calls'[Len(calls')].question = pendingQuery.question
            /\ calls'[Len(calls')].query = pendingQuery.query]_vars
    /\ [][op'.name = "handleExecuteQuerySettled" /\ Succeeded(op'.resp) =>
            /\ Len(messages') = Len(messages) + 2
            /\ SubSeq(messages', 1, Len(messages)) = messages
            /\ messages'[Len(messages) + 1].type = "result"
            /\ messages'[Len(messages) + 1].result = Some(op'.resp.body.result)
            /\ messages'[Len(messages) + 2].type = "bot"
            /\ messages'[Len(messages) + 2].answer = Some(op'.resp.body.answer)
            /\ messages'[Len(messages) + 2].content
                 = <<"[ok] ">> \o op'.resp.body.answer]_vars

C11_Witness ==
    /\ ExecutionSettled
    /\ Succeeded(op.resp)
    /\ Len(messages) = calls[op.call].base + 2
    /\ messages[Len(messages)].answer = Some(op.resp.body.answer)

\* the text shown between the fences of a result message
Shown(m) == SubSeq(m.content, 2, Len(m.content) - 1)

EmptyArray(r) == r.kind = "array" /\ r.items = <<>>

\* C12: the result message of a successful execution shows 'No results
\* found' exactly when the result is the empty array, and shows the JSON
\* rendering of the result in every other case.
C12_NoResultsOnlyForEmptyArray ==
    ExecutionSettled /\ Succeeded(op.resp) =>
        LET r == op.resp.body.result
            m == messages[Len(messages) - 1]
        IN /\ Shown(m) = <<"No results found">> <=> EmptyArray(r)
           /\ ~EmptyArray(r) => Shown(m) = stringify(r)

\* the empty array came back
C12_Witness ==
    /\ ExecutionSettled
    /\ Succeeded(op.resp)
    /\ EmptyArray(op.resp.body.result)
    /\ Shown(messages[Len(messages) - 1]) = <<"No results found">>

\* C13: when the execute call of an approval fails (success: false, non-2xx
\* or exception) the log has gained one bot message and no result message,
\* and pendingQuery and isLoading are cleared.
C13_ExecutionFailureAppendsOneNotice ==
    ExecutionSettled /\ ~Succeeded(op.resp) =>
        /\ Len(messages) = calls[op.call].base + 1
        /\ messages[Len(messages)].type = "bot"
        /\ messages[Len(messages)].result = undefined
        /\ pendingQuery = null
        /\ ~isLoading

\* the backend reported success: false
C13_Witness ==
    /\ ExecutionSettled
    /\ op.resp.kind = "http"
    /\ op.resp.ok
    /\ ~op.resp.body.success
    /\ Len(messages) = calls[op.call].base + 1

HealthSettled == op.name = "checkConnectionSettled"

\* C14: after a health check that reported status healthy and
\* mongodb_connected true, connectionStatus is connected; the log has gained
\* the empty-store warning and nothing else when collections_count is 0, and
\* nothing at all when it is positive or absent.
C14_HealthyConnects ==
    (/\ HealthSettled
     /\ op.resp.kind = "http"
     /\ op.resp.body.status = "healthy"
     /\ op.resp.body.mongodb_connected) =>
        /\ connectionStatus = "connected"
        /\ IF op.resp.body.collections_count = Some(0)
           THEN /\ Len(messages) = calls[op.call].base + 1
                /\ messages[Len(messages)] = EmptyStoreWarning
           ELSE Len(messages) = calls[op.call].base

\* a healthy backend with no collections
C14_Witness ==
    /\ HealthSettled
    /\ op.resp.kind = "http"
    /\ op.resp.body.collections_count = Some(0)
    /\ connectionStatus = "connected"
    /\ messages[Len(messages)] = EmptyStoreWarning

TransportFailure(resp) ==
    resp.kind = "exception" \/ (resp.kind = "http" /\ ~resp.ok)

Settles == {"checkConnectionSettled", "handleSendMessageSettled",
            "handleExecuteQuerySettled"}

\* C16: the continuation that handles a transport failure, on any of the
\* three endpoints, appends exactly one bot message and has none of the
\* effects of a success: connectionStatus does not become connected, no query
\* message is appended and pendingQuery is not set, no result message is
\* appended.
C16_TransportFailureOneNotice ==
    [][op'.name \in Settles /\ TransportFailure(op'.resp) =>
          /\ Len(messages') = Len(messages) + 1
          /\ SubSeq(messages', 1, Len(messages)) = messages
          /\ messages'[Len(messages')].type = "bot"
          /\ op'.name = "checkConnectionSettled" => connectionStatus' # "connected"
          /\ op'.name = "handleSendMessageSettled" => UNCHANGED pendingQuery
          /\ op'.name = "handleExecuteQuerySettled" => pendingQuery' = null]_vars

\* C17: the continuation of a generate or execute call, whatever the
\* response, appends at least one message and leaves isLoading false; and
\* when every such call is eventually answered, a busy session always
\* becomes idle again.
C17_CallsTerminate ==
    /\ [][op'.name \in {"handleSendMessageSettled", "handleExecuteQuerySettled"} =>
            /\ Len(messages') > Len(messages)
            /\ ~isLoading']_vars
    /\ (isLoading ~> ~isLoading)

\* a generate call that was rejected has been handled
C17_Witness ==
    /\ GenerationSettled
    /\ op.resp.kind = "exception"
    /\ ~isLoading
    /\ Len(messages) = calls[op.call].base + 2

\* C18: connectionStatus starts as checking and changes only in the
\* continuation of the health check, which runs once: it changes from
\* checking only, so connected and error are final.
C18_ConnectionSetOnceByHealthCheck ==
    /\ connectionStatus = "checking"
    /\ [][connectionStatus' # connectionStatus =>
            /\ op'.name = "checkConnectionSettled"
            /\ connectionStatus = "checking"]_vars

\* an execution has run to its end in a connected session
C18_Witness ==
    /\ ExecutionSettled
    /\ connectionStatus = "connected"

\* the last continuation handled a failure: a transport failure, a reported
\* failure, or a degraded health report
FailureSettled ==
    \/ /\ HealthSettled
       /\ \/ TransportFailure(op.resp)
          \/ op.resp.body.status # "healthy"
          \/ ~op.resp.body.mongodb_connected
    \/ /\ GenerationSettled \/ ExecutionSettled
       /\ ~Succeeded(op.resp)

HealthInFlight == \E id \in inflight : calls[id].endpoint = HealthEndpoint

\* a submit is accepted only with connectionStatus connected, and
\* connectionStatus is set only by the continuation of a health call: a
\* state that accepts a question can be reached exactly when
\* connectionStatus is connected or a health call is still in flight
CanStillAccept == connectionStatus = "connected" \/ HealthInFlight

\* C19 as stated: after a failure of any of the three kinds a state in which
\* a non-empty question is accepted can still be reached.
C19_NoFailureIsFatal == FailureSettled => CanStillAccept

\* C19, amended: after a failed generate or execute call the session is
\* connected and idle, so a non-empty question can be typed and is accepted;
\* once connectionStatus is error it stays error and no submit is accepted.
C19_CallFailuresNotFatal ==
    /\ []((GenerationSettled \/ ExecutionSettled) /\ ~Succeeded(op.resp) =>
            /\ connectionStatus = "connected"
            /\ ~isLoading
            /\ ~InputDisabled
            /\ trim(input) # <<>> => ~SendRefused /\ ~SendDisabled)
    /\ [][connectionStatus = "error" =>
            /\ connectionStatus' = "error"
            /\ ~(op'.name \in Submits /\ op'.accepted)]_vars

\* a question is accepted right after a generation that failed
C19_Witness ==
    /\ op.name \in Submits
    /\ op.accepted
    /\ Len(messages) >= 3
    /\ messages[Len(messages) - 1] = SendErrorNotice

IsPrefix(s, t) == Len(s) <= Len(t) /\ SubSeq(t, 1, Len(s)) = s

\* C20: in every step the log before the step is a prefix of the log after
\* it: messages are only appended at the end.
C20_AppendOnly == [][IsPrefix(messages, messages')]_vars

\* a cancel has been appended behind the messages of a generation
C20_Witness ==
    /\ op.name = "ClickCancel"
    /\ op.accepted
    /\ Len(messages) >= 4
    /\ messages[1] = WelcomeMessage

\* C21: a click on Execute or on Cancel while no proposal is pending changes
\* nothing: no message is appended, no request is issued, isLoading keeps its
\* value (and so do the input, the connection status and the empty proposal).
C21_ResolveWithoutProposalNoOp ==
    [][op'.name \in Approvals /\ pendingQuery = null =>
          /\ ~op'.accepted
          /\ messages' = messages
          /\ calls' = calls
          /\ inflight' = inflight
          /\ isLoading' = isLoading
          /\ pendingQuery' = null
          /\ UNCHANGED <<input, connectionStatus>>]_vars

\* Execute has been clicked in a connected, idle chat that holds no proposal
C21_Witness ==
    /\ op.name = "ClickExecute"
    /\ ~op.accepted
    /\ pendingQuery = null
    /\ connectionStatus = "connected"
    /\ ~isLoading

LastMessage == messages[Len(messages)]

\* the request that the last step issued or settled
OpCall == calls[op.call]

\* C22: the messages of one question are adjacent in the log and in call
\* order.  An accepted submit appends the user message as the last message, and
\* the one request it issues starts behind every message that was there
\* before; when that request settles, exactly one message has been appended
\* since the user message, and it is the query message or a bot notice of that
\* request, never the notice of a cancel.
C22_QuestionThenAnswerAdjacent ==
    /\ [][op'.name \in Submits /\ op'.accepted =>
            /\ Len(calls') = Len(calls) + 1
            /\ op'.call = Len(calls')
            /\ OpCall'.endpoint = ChatEndpoint
            /\ OpCall'.base = Len(messages)
            /\ messages' = Append(messages, UserMessage(OpCall'.question))]_vars
    /\ [](GenerationSettled =>
            /\ Len(messages) = OpCall.base + 2
            /\ messages[OpCall.base + 1] = UserMessage(OpCall.question)
            /\ IF Succeeded(op.resp)
               THEN LastMessage = QueryMessage(op.resp.body)
               ELSE LastMessage.type = "bot" /\ LastMessage # CancelMessage)

\* a second question has been answered by a query while the proposal of the
\* first one was still shown
C22_Witness ==
    /\ GenerationSettled
    /\ Succeeded(op.resp)
    /\ OpCall.base >= 3
    /\ messages[OpCall.base].type = "query"

\* C23: the step that accepts a question, before its request settles, empties
\* the input and sets isLoading; the user message it appends and the question
\* of the request it issues to the chat endpoint are both the trimmed input of
\* the state in which the step was taken, and the request is still in flight
\* after the step.
C23_AcceptClearsInputSendsTrimmed ==
    [][op'.name \in Submits /\ op'.accepted =>
          /\ input' = <<>>
          /\ isLoading'
          /\ messages' = Append(messages, UserMessage(trim(input)))
          /\ calls' = Append(calls, Request(ChatEndpoint, trim(input), <<>>, Len(messages)))
          /\ op'.call = Len(calls')
          /\ op'.call \in inflight'
          /\ op'.resp = NoResponse]_vars

\* a question has been accepted: its request is in flight, the input is empty,
\* the chat is busy and the user message is the last message of the log
C23_Witness ==
    /\ op.name \in Submits
    /\ op.accepted
    /\ op.call \in inflight
    /\ input = <<>>
    /\ isLoading
    /\ OpCall.endpoint = ChatEndpoint
    /\ LastMessage = UserMessage(OpCall.question)

BusyCalls == {id \in inflight : calls[id].endpoint \in {ChatEndpoint, ExecuteEndpoint}}

\* C24: at most one request to the chat or execute endpoint is in flight, and
\* isLoading is true exactly when one is; so no continuation clears isLoading
\* while another such request is outstanding, and a step that issues such a
\* request is taken only when none is in flight.
C24_OneCallInFlightIffBusy ==
    /\ [](Cardinality(BusyCalls) <= 1 /\ (isLoading <=> BusyCalls # {}))
    /\ [][op'.name \in Submits \cup Approvals /\ op'.call # 0 =>
            BusyCalls = {} /\ BusyCalls' = {op'.call}]_vars
    /\ [][op'.name \in {"handleSendMessageSettled", "handleExecuteQuerySettled"} =>
            BusyCalls = {op'.call} /\ BusyCalls' = {} /\ ~isLoading']_vars

\* Execute has been clicked a second time while the execution is in flight,
\* and the click was ignored
C24_Witness ==
    /\ op.name = "ClickExecute"
    /\ ~op.accepted
    /\ isLoading
    /\ \E id \in BusyCalls : calls[id].endpoint = ExecuteEndpoint

ExecuteCalls == {i \in DOMAIN calls : calls[i].endpoint = ExecuteEndpoint}

QueryMessages == {j \in DOMAIN messages : messages[j].type = "query"}

\* C25: in every state the requests issued to the execute endpoint are at
\* most as many as the query messages in the log, and between any two of them
\* a query message was appended: a proposal is executed at most once, however
\* often Execute is clicked for it.
C25_AtMostOneExecutePerProposal ==
    /\ Cardinality(ExecuteCalls) <= Cardinality(QueryMessages)
    /\ \A i, k \in ExecuteCalls :
          i < k => \E j \in QueryMessages :
                      calls[i].base < j /\ j <= calls[k].base

\* Execute has been clicked again for a proposal whose execution is in
\* flight, and there is still one execute request for the one query message
C25_Witness ==
    /\ op.name = "ClickExecute"
    /\ ~op.accepted
    /\ pendingQuery # null
    /\ Cardinality(ExecuteCalls) = 1
    /\ Cardinality(QueryMessages) = 1
    /\ ExecuteCalls \subseteq inflight

\* the place of the last query message of the log, 0 when there is none
LastQueryAt ==
    IF QueryMessages = {} THEN 0
    ELSE CHOOSE j \in QueryMessages : \A k \in QueryMessages : k <= j

\* C26: in every state with a pending proposal the log holds a query message,
\* and the query of the proposal is the query of the last query message.
C26_PendingIsLastQuery ==
    pendingQuery # null =>
        /\ LastQueryAt # 0
        /\ messages[LastQueryAt].query = Some(pendingQuery.query)

\* the proposal of a first question has been replaced by the proposal of a
\* second one with another query
C26_Witness ==
    /\ pendingQuery # null
    /\ \E j \in QueryMessages :
          /\ j < LastQueryAt
          /\ messages[j].query # messages[LastQueryAt].query
    /\ messages[LastQueryAt].query = Some(pendingQuery.query)

====
